---- MODULE Spec2Model ----
(***************************************************************************)
(* LitigiMaker, engine_backend.py: the lexical retriever                   *)
(* _simple_retrieve_snippets over a course profile, the quote validation   *)
(* pass _validate_quotes_in_result, the operations build_course_bundle,    *)
(* grade_answer, grade_exam_retry and assistant_answer over a bundle, the  *)
(* chunker of the design, and the web app of streamlit_app.py over the     *)
(* data directory.                                                         *)
(*                                                                         *)
(* A Python str is a sequence of one-character strings.  A value that a    *)
(* dict may lack, or hold as None, is a tagged record: Absent (the key is  *)
(* missing), PyNone (the key holds None) or Val(v).                        *)
(***************************************************************************)
EXTENDS Integers, Sequences, FiniteSets, TLC

VARIABLES
    course_profile,   \* instances.active_course_profile, as built
    query,            \* the query of the latest retrieval
    k,                \* the result limit of the latest retrieval
    outcome,          \* "none" | "returned" | "raised" : how the latest call ended
    snippets,         \* the list the latest call returned
    picked,           \* per returned snippet: the candidate it was made from and its score
    overlaps,         \* per topic_index item: the overlap the latest call computed for it
    repeated          \* the latest call had the arguments of the call before it

\* _validate_quotes_in_result
VARIABLES
    trainer_result,       \* the trainer result handed to the latest validation
    retrieved_snippets,   \* the snippet list handed to it
    validated,            \* the trainer result it returned
    v_outcome             \* "none" | "returned"

\* build_course_bundle, grade_answer, grade_exam_retry, assistant_answer
VARIABLES
    objects,    \* the "instances" dicts in memory, by address; address 0 is
                \* ENGINE_BUNDLE_TEMPLATE's
    bundles,    \* per bundle the caller holds: the address of its "instances" dict
    call,       \* the latest call: operation, bundle, mode, how it ended, what it did
    returned    \* per bundle: the value its latest successful call returned

\* the chunker
VARIABLES
    c_text,       \* the normalized text to chunk
    chunk_size,   \* the chunk size, in characters
    chunk_overlap,   \* the overlap, in characters
    cursor,       \* the scan cursor: the offset the next chunk starts at
    chunks,       \* the chunks produced so far, each with the offset it starts at
    c_pc          \* "idle" | "start" | "scan" | "done" | "rejected"

\* streamlit_app.py: the data directory and the page
VARIABLES
    know_dir,        \* data/knowledge: the text of each file, by file name
    style_dir,       \* data/style: the text of each file, by file name
    bundle_path,     \* data/bundles/course_bundle.json: None when there is no such
                     \* file, else the "instances" of the bundle saved in it
    st_api_key,      \* the text of the sidebar's API key input
    session_state,   \* st.session_state: last_grade and last_retry
    rerun            \* the latest run of the script: the button pressed, how its
                     \* handler ended, the engine function it called

vars == <<course_profile, query, k, outcome, snippets, picked, overlaps, repeated>>

vvars == <<trainer_result, retrieved_snippets, validated, v_outcome>>

gvars == <<objects, bundles, call, returned>>

cvars == <<c_text, chunk_size, chunk_overlap, cursor, chunks, c_pc>>

avars == <<know_dir, style_dir, bundle_path, st_api_key, session_state, rerun>>

allvars == <<vars, vvars, gvars, cvars, avars>>

(***************************************************************************)
(* Bounds of the exploration.                                              *)
(***************************************************************************)
MaxItems == 3
MaxDocs == 2
MaxK == 2

(***************************************************************************)
(* Program constants.                                                      *)
(***************************************************************************)
MinTokenLen == 3
MinLineLen == 25
QuoteMax == 180

(***************************************************************************)
(* Python values.                                                          *)
(***************************************************************************)
Absent == [st |-> "absent"]
PyNone == [st |-> "none"]
Val(v) == [st |-> "val", v |-> v]

\* bool(x) of a str, list or dict value: empty is falsy
Truthy(o) == o.st = "val" /\ o.v # <<>>

\* d.get(key) or default
OrElse(o, default) == IF Truthy(o) THEN o.v ELSE default

\* d.get(key, default): the default stands in for a missing key only
GetDefault(o, default) == IF o.st = "absent" THEN Val(default) ELSE o

(***************************************************************************)
(* Characters.  The tokenizer splits on runs of characters outside        *)
(* [\u0590-\u05FF A-Z a-z 0-9]; \s is the whitespace class of _normalize_ws. *)
(***************************************************************************)
Hebrew == {"alef", "bet", "gimel"}
Latin == {"a", "b", "c", "p", "q", "x", "y", "z", "A", "B", "C",
          "N", "o", "n", "e", "t", "i", "r", "w", "m", "h", "s", "u"}
Digits == {"0", "1"}
WordChars == Hebrew \cup Latin \cup Digits
WhiteSpace == {" ", "\n", "\t"}
LineBreaks == {"\n"}

RECURSIVE LStrip(_)
LStrip(s) ==
    IF s # <<>> /\ Head(s) \in WhiteSpace THEN LStrip(Tail(s)) ELSE s

RECURSIVE RStrip(_)
RStrip(s) ==
    IF s # <<>> /\ s[Len(s)] \in WhiteSpace THEN RStrip(SubSeq(s, 1, Len(s) - 1)) ELSE s

\* re.sub(r"\s+", " ", s): every run of whitespace becomes one space
CollapseWs(s) ==
    LET marked == [i \in 1..Len(s) |->
                     IF s[i] \notin WhiteSpace THEN s[i]
                     ELSE IF i > 1 /\ s[i - 1] \in WhiteSpace THEN "" ELSE " "]
    IN  SelectSeq(marked, LAMBDA c : c # "")

\* _normalize_ws(s) of a str
NormalizeWsStr(s) == CollapseWs(RStrip(LStrip(s)))

\* _normalize_ws(s): (s or "") first
NormalizeWs(o) == NormalizeWsStr(OrElse(o, <<>>))

\* re.split(r"[^...]+", x): the maximal runs of word characters
Pieces(s) ==
    LET n == Len(s)
        starts == {i \in 1..n : s[i] \in WordChars /\ (i = 1 \/ s[i - 1] \notin WordChars)}
        ends == {j \in 1..n : s[j] \in WordChars /\ (j = n \/ s[j + 1] \notin WordChars)}
        EndOf(i) == CHOOSE j \in ends : j >= i /\ \A e \in ends : e >= i => j <= e
    IN  {SubSeq(s, i, EndOf(i)) : i \in starts}

\* Tokens with the minimum length one lower
TokensMin2(s) == {t \in Pieces(s) : Len(t) >= MinTokenLen - 1}

\* set([t for t in re.split(...) if len(t) >= 3])
Tokens(s) == {t \in Pieces(s) : Len(t) >= MinTokenLen}

\* str.splitlines(): the segments between line breaks, without a final empty one
SplitLines(s) ==
    LET n == Len(s)
        brk == SelectSeq([i \in 1..n |-> i], LAMBDA i : s[i] \in LineBreaks)
        m == Len(brk)
        Segment(j) == SubSeq(s, IF j = 1 THEN 1 ELSE brk[j - 1] + 1,
                                IF j = m + 1 THEN n ELSE brk[j] - 1)
    IN  IF m = 0 THEN (IF n = 0 THEN <<>> ELSE <<s>>)
        ELSE IF brk[m] = n THEN [j \in 1..m |-> Segment(j)]
        ELSE [j \in 1..(m + 1) |-> Segment(j)]

\* sep.join(parts)
RECURSIVE Join(_, _)
Join(sep, parts) ==
    IF parts = <<>> THEN <<>>
    ELSE IF Len(parts) = 1 THEN parts[1]
    ELSE parts[1] \o sep \o Join(sep, Tail(parts))

\* s[:n]
Prefix(s, n) == SubSeq(s, 1, IF Len(s) < n THEN Len(s) ELSE n)

\* str(x) inside an f-string
FormatStr(o) == IF o.st = "val" THEN o.v ELSE <<"N", "o", "n", "e">>

(***************************************************************************)
(* _simple_retrieve_snippets: the topic_index path.                        *)
(***************************************************************************)
NoSource == [doc_id |-> Absent, page |-> Absent, quote |-> Absent]

\* set([_normalize_ws(x) for x in (item.get(key) or []) if x])
NormalizedSet(o) ==
    LET xs == OrElse(o, <<>>)
    IN  {NormalizeWsStr(xs[i]) : i \in {j \in 1..Len(xs) : xs[j] # <<>>}}

\* the token bag of a topic_index item: keywords, subtopics and topic
Bag(item) ==
    LET kw == NormalizedSet(item.keywords)
        sub == NormalizedSet(item.subtopics)
        topic == NormalizeWs(item.topic)
    IN  UNION {Tokens(x) : x \in kw \cup sub \cup (IF topic # <<>> THEN {topic} ELSE {})}

\* q_tokens
QTokens(q) == Tokens(NormalizeWsStr(q))

\* Overlap taken as len(bag)
OverlapBagSize(q_tokens, item) == Cardinality(Bag(item))

\* overlap = len(q_tokens.intersection(bag))
Overlap(q_tokens, item) == Cardinality(q_tokens \cap Bag(item))

\* src0 = (item.get("sources") or [{}])[0] or {}
Src0(item) ==
    LET srcs == OrElse(item.sources, <<Val(NoSource)>>)
    IN  IF srcs[1].st = "val" THEN srcs[1].v ELSE NoSource

\* item.get("summary","") + " " + " ".join(item.get("keywords") or []) raises
\* TypeError when the summary key holds None
SummaryRaises(item) == GetDefault(item.summary, <<>>).st # "val"

Location(item) ==
    <<"t", "o", "p", "i", "c", ":", " ">>
    \o FormatStr(GetDefault(item.topic, <<>>))
    \o (IF Truthy(item.subtopics)
        THEN <<" ", "/", " ", "s", "u", "b", "t", "o", "p", "i", "c", "s", ":", " ">>
             \o Join(<<",", " ">>, item.subtopics.v)
        ELSE <<>>)

FullText(item) ==
    GetDefault(item.summary, <<>>).v \o <<" ">> \o Join(<<" ">>, OrElse(item.keywords, <<>>))

\* the dict appended to scored for an item
TopicSnippet(item) ==
    LET src0 == Src0(item)
    IN  [doc_id |-> GetDefault(src0.doc_id, "K?"),
         page |-> IF src0.page.st = "absent" THEN PyNone ELSE src0.page,
         quote |-> GetDefault(src0.quote, <<>>),
         location |-> Location(item),
         full_text |-> FullText(item)]

\* SkipItem with the test left out
SkipItemNever(overlap) == FALSE

\* if overlap == 0: continue
SkipItem(overlap) == overlap = 0

\* the loop over topic_index: items with overlap 0 are skipped
RECURSIVE ScoreTopics(_, _, _, _)
ScoreTopics(topic_index, q_tokens, i, acc) ==
    IF i > Len(topic_index) THEN acc
    ELSE LET item == topic_index[i]
             overlap == Overlap(q_tokens, item)
             seen == Append(acc.overlaps, overlap)
         IN  IF SkipItem(overlap)
             THEN ScoreTopics(topic_index, q_tokens, i + 1, [acc EXCEPT !.overlaps = seen])
             ELSE IF SummaryRaises(item)
             THEN [raised |-> TRUE, scored |-> acc.scored, overlaps |-> seen]
             ELSE ScoreTopics(topic_index, q_tokens, i + 1,
                      [raised |-> FALSE,
                       scored |-> Append(acc.scored,
                                         [score |-> overlap, path |-> "topic", idx |-> i,
                                          snippet |-> TopicSnippet(item)]),
                       overlaps |-> seen])

\* scored.sort(key=lambda x: x[0], reverse=True): stable, descending
RECURSIVE InsertDesc(_, _)
InsertDesc(sorted, e) ==
    IF sorted = <<>> THEN <<e>>
    ELSE IF Head(sorted).score >= e.score
         THEN <<Head(sorted)>> \o InsertDesc(Tail(sorted), e)
         ELSE <<e>> \o sorted

RECURSIVE SortDesc(_)
SortDesc(scored) ==
    IF scored = <<>> THEN <<>>
    ELSE InsertDesc(SortDesc(SubSeq(scored, 1, Len(scored) - 1)), scored[Len(scored)])

\* ((course_profile.get("knowledge_brain") or {}).get("topic_index") or [])
TopicIndex(cp) ==
    IF cp.knowledge_brain.st = "val" THEN OrElse(cp.knowledge_brain.v.topic_index, <<>>)
    ELSE <<>>

(***************************************************************************)
(* _simple_retrieve_snippets: the fallback over the raw knowledge text.    *)
(***************************************************************************)
\* ((course_profile.get("raw_docs") or {}).get("knowledge") or {}), in dict order
RawKnowledge(cp) ==
    IF cp.raw_docs.st = "val" THEN OrElse(cp.raw_docs.v.knowledge, <<>>) ELSE <<>>

\* NormalizeLine leaving the line as read
NormalizeLineKeep(ln) == ln

\* ln_n = _normalize_ws(ln)
NormalizeLine(ln) == NormalizeWsStr(ln)

\* the loop over the lines of one document: the first line of the highest overlap
RECURSIVE BestLine(_, _, _, _)
BestLine(lines, q_tokens, i, best) ==
    IF i > Len(lines) THEN best
    ELSE LET ln_n == NormalizeLine(lines[i])
             ov == Cardinality(q_tokens \cap Tokens(ln_n))
         IN  IF Len(ln_n) < MinLineLen THEN BestLine(lines, q_tokens, i + 1, best)
             ELSE IF ov > best.best_score
                  THEN BestLine(lines, q_tokens, i + 1,
                                [best_score |-> ov, best_line |-> ln_n])
                  ELSE BestLine(lines, q_tokens, i + 1, best)

\* the dict appended to snippets for a document's best line
RawQuote(best_line) == Prefix(best_line, QuoteMax)

RawSnippet(doc_id, best_line) ==
    [doc_id |-> Val(doc_id),
     page |-> PyNone,
     quote |-> Val(RawQuote(best_line)),
     location |-> <<"r", "a", "w", "_", "t", "e", "x", "t", "_", "m", "a", "t", "c", "h">>,
     full_text |-> best_line]

\* KeepBest with >= for >
KeepBestNonNegative(best) == best.best_score >= 0

\* the document's entry is kept when its best line scores above zero
KeepBest(best) == best.best_score > 0 /\ best.best_line # <<>>

\* the loop over raw_knowledge.items(): append, then stop once len(snippets) >= k
RECURSIVE RawFallback(_, _, _, _, _)
RawFallback(raw_knowledge, q_tokens, kk, i, acc) ==
    IF i > Len(raw_knowledge) THEN acc
    ELSE LET doc == raw_knowledge[i]
         IN  IF ~Truthy(doc.text) THEN RawFallback(raw_knowledge, q_tokens, kk, i + 1, acc)
             ELSE LET best == BestLine(SplitLines(doc.text.v), q_tokens, 1,
                                       [best_score |-> 0, best_line |-> <<>>])
                      acc2 == Append(acc, [score |-> best.best_score, path |-> "raw",
                                           idx |-> i,
                                           snippet |-> RawSnippet(doc.doc_id, best.best_line)])
                  IN  IF ~KeepBest(best)
                      THEN RawFallback(raw_knowledge, q_tokens, kk, i + 1, acc)
                      ELSE IF Len(acc2) >= kk THEN acc2
                      ELSE RawFallback(raw_knowledge, q_tokens, kk, i + 1, acc2)

(***************************************************************************)
(* _simple_retrieve_snippets(course_profile, query, k).  The result names  *)
(* how the call ended, the entries behind the returned list, the overlap   *)
(* computed for each topic_index item, and the profile as the call leaves  *)
(* it (the code assigns to nothing reachable from course_profile).         *)
(***************************************************************************)
\* TopK over an ascending sort read backwards: equal scores come out reversed
RECURSIVE InsertTiesReversed(_, _)
InsertTiesReversed(sorted, e) ==
    IF sorted = <<>> THEN <<e>>
    ELSE IF Head(sorted).score > e.score
         THEN <<Head(sorted)>> \o InsertTiesReversed(Tail(sorted), e)
         ELSE <<e>> \o sorted

RECURSIVE SortTiesReversed(_)
SortTiesReversed(scored) ==
    IF scored = <<>> THEN <<>>
    ELSE InsertTiesReversed(SortTiesReversed(SubSeq(scored, 1, Len(scored) - 1)),
                            scored[Len(scored)])

TopKTiesReversed(scored, kk) == Prefix(SortTiesReversed(scored), kk)

\* snippets = [x[1] for x in scored[:k]]
TopK(scored, kk) == Prefix(SortDesc(scored), kk)

\* the call with item.pop("sources") for item.get("sources"): every scored item
\* loses its sources
SimpleRetrieveConsuming(cp, q, kk) ==
    LET q_tokens == QTokens(q)
        topic_index == TopicIndex(cp)
        t == ScoreTopics(topic_index, q_tokens, 1,
                         [raised |-> FALSE, scored |-> <<>>, overlaps |-> <<>>])
        top == TopK(t.scored, kk)
        left == [i \in 1..Len(topic_index) |->
                    IF i <= Len(t.overlaps) /\ t.overlaps[i] # 0
                    THEN [topic_index[i] EXCEPT !.sources = Absent]
                    ELSE topic_index[i]]
        after == IF topic_index = <<>> THEN cp
                 ELSE [cp EXCEPT !.knowledge_brain.v.topic_index.v = left]
    IN  IF t.raised
        THEN [raised |-> TRUE, entries |-> <<>>, overlaps |-> t.overlaps, profile |-> after]
        ELSE [raised |-> FALSE,
              entries |-> IF top # <<>> THEN top
                          ELSE RawFallback(RawKnowledge(cp), q_tokens, kk, 1, <<>>),
              overlaps |-> t.overlaps,
              profile |-> after]

\* the call with an empty query rejected up front
SimpleRetrieveRejectingEmpty(cp, q, kk) ==
    LET q_tokens == QTokens(q)
        t == ScoreTopics(TopicIndex(cp), q_tokens, 1,
                         [raised |-> FALSE, scored |-> <<>>, overlaps |-> <<>>])
        top == TopK(t.scored, kk)
    IN  IF t.raised \/ NormalizeWsStr(q) = <<>>
        THEN [raised |-> TRUE, entries |-> <<>>, overlaps |-> <<>>, profile |-> cp]
        ELSE [raised |-> FALSE,
              entries |-> IF top # <<>> THEN top
                          ELSE RawFallback(RawKnowledge(cp), q_tokens, kk, 1, <<>>),
              overlaps |-> t.overlaps,
              profile |-> cp]

SimpleRetrieveSnippets(cp, q, kk) ==
    LET q_tokens == QTokens(q)
        t == ScoreTopics(TopicIndex(cp), q_tokens, 1,
                         [raised |-> FALSE, scored |-> <<>>, overlaps |-> <<>>])
        top == TopK(t.scored, kk)
    IN  IF t.raised
        THEN [raised |-> TRUE, entries |-> <<>>, overlaps |-> t.overlaps, profile |-> cp]
        ELSE [raised |-> FALSE,
              entries |-> IF top # <<>> THEN top
                          ELSE RawFallback(RawKnowledge(cp), q_tokens, kk, 1, <<>>),
              overlaps |-> t.overlaps,
              profile |-> cp]

(***************************************************************************)
(* The inputs explored: words, lines, documents, topic_index items,        *)
(* profiles and queries.                                                   *)
(***************************************************************************)
wAb == <<"a", "b">>
wAbc == <<"a", "b", "c">>
wCapAbc == <<"A", "b", "c">>
wXyz == <<"x", "y", "z">>
SP == <<" ">>
NL == <<"\n">>
Pad == [i \in 1..22 |-> "p"]

LineAbc == wAbc \o SP \o Pad
LineBoth == SP \o wAbc \o SP \o SP \o wXyz \o <<"\t">> \o Pad \o SP
LineShort == wAbc \o SP \o wXyz
LineOdd == wAb \o <<",">> \o SP \o wCapAbc \o SP \o Pad
LineLong == wXyz \o SP \o Join(SP, [i \in 1..8 |-> Pad]) \o SP \o wAbc

TextTwo == LineAbc \o NL \o LineBoth \o NL
TextMisc == LineShort \o NL \o NL \o LineOdd

TextPool == {LineAbc, TextTwo, TextMisc, LineLong}

\* build_course_bundle names the knowledge documents K1, K2, ... in input order
DocId(i) == IF i = 1 THEN "K1" ELSE IF i = 2 THEN "K2" ELSE IF i = 3 THEN "K3" ELSE "K4"

SeqsUpTo(S, n) == UNION {[1..m -> S] : m \in 0..n}

RawDocsOf(texts) ==
    Val([knowledge |-> Val([i \in 1..Len(texts) |-> [doc_id |-> DocId(i), text |-> texts[i]]]),
         style |-> Val(<<>>)])

Source(doc_id, quote) ==
    Val([doc_id |-> Val(doc_id), page |-> Absent, quote |-> Val(quote)])

Item(topic, keywords, subtopics, summary, sources) ==
    [topic |-> topic, keywords |-> keywords, subtopics |-> subtopics,
     summary |-> summary, sources |-> sources]

ItemAbc ==
    Item(Val(wAbc), Val(<<>>), Val(<<>>), Val(wAbc),
         Val(<<Source("K1", wAbc \o SP \o wXyz)>>))
ItemBoth ==
    Item(Val(<<>>), Val(<<wXyz, SP \o wAbc \o SP \o SP \o wXyz>>), Val(<<>>), Val(wXyz),
         Val(<<Source("K1", <<"q", "q", "q">>)>>))
ItemXyz ==
    Item(Val(wXyz), Val(<<wAb>>), Val(<<wCapAbc>>), Val(<<>>), Val(<<>>))
ItemNone ==
    Item(Val(wAb), Val(<<<<",">>>>), Val(<<>>), Val(wAb), Val(<<Source("K2", wAb)>>))

ItemPool == {ItemAbc, ItemBoth, ItemXyz}

\* one field of a scoring item at a time missing, None or empty
ShapePool ==
    {[ItemAbc EXCEPT !.topic = t, !.keywords = Val(<<wAbc>>)] : t \in {Absent, PyNone}}
    \cup {[ItemAbc EXCEPT !.keywords = x] : x \in {Absent, PyNone, Val(<<<<>>, wXyz>>)}}
    \cup {[ItemAbc EXCEPT !.subtopics = x] : x \in {Absent, PyNone, Val(<<wXyz, wAb>>)}}
    \cup {[ItemAbc EXCEPT !.summary = x] : x \in {Absent, PyNone, Val(<<>>)}}
    \cup {[ItemAbc EXCEPT !.sources = x] :
             x \in {Absent, PyNone, Val(<<PyNone>>), Val(<<Val(NoSource)>>),
                    Val(<<Val([doc_id |-> Absent, page |-> Val(1), quote |-> PyNone])>>)}}

Profile(knowledge_brain, raw_docs) ==
    [knowledge_brain |-> knowledge_brain, raw_docs |-> raw_docs]

Brain(topic_index) == Val([topic_index |-> topic_index])

\* profiles whose topic_index decides the result
TopicProfiles ==
    {Profile(Brain(Val(ti)), RawDocsOf(<<Val(TextTwo)>>)) :
        ti \in SeqsUpTo(ItemPool, MaxItems) \ {<<>>}}

\* profiles whose raw knowledge text decides the result
RawProfiles ==
    {Profile(Brain(Val(<<ItemNone>>)), RawDocsOf([i \in 1..Len(texts) |-> Val(texts[i])])) :
        texts \in SeqsUpTo(TextPool, MaxDocs)}

\* profiles with missing, None or empty parts
ShapeProfiles ==
    {Profile(kb, RawDocsOf(<<Val(LineAbc)>>)) :
        kb \in {Absent, PyNone, Brain(Absent), Brain(PyNone), Brain(Val(<<>>))}}
    \cup {Profile(Brain(Val(<<>>)), rd) :
            rd \in {Absent, PyNone,
                    Val([knowledge |-> Absent, style |-> Absent]),
                    Val([knowledge |-> PyNone, style |-> PyNone]),
                    Val([knowledge |-> Val(<<>>), style |-> Val(<<>>)]),
                    RawDocsOf(<<PyNone, Val(LineAbc)>>),
                    RawDocsOf(<<Val(<<>>), Val(LineAbc)>>)}}
    \cup {Profile(Brain(Val(<<it>>)), RawDocsOf(<<Val(LineAbc)>>)) : it \in ShapePool}

Profiles == TopicProfiles \cup RawProfiles \cup ShapeProfiles

Queries ==
    { <<>>,
      wAb,
      wAbc,
      wAbc \o SP \o wXyz,
      SP \o wXyz \o <<",">> \o NL \o wAb \o SP \o SP \o wAbc \o SP }

Limits == 0..MaxK

(***************************************************************************)
(* The state machine: a profile as built, then retrievals over it.         *)
(***************************************************************************)
\* ENGINE_BUNDLE_TEMPLATE["adaptive_learning_engine_bundle"]["instances"]
TemplateInstances == [active_course_profile |-> PyNone, last_trainer_result |-> PyNone]

\* the address of the template's "instances" dict
TemplateRef == 0

\* memory once the module is loaded: the template alone
TemplateObjects == [a \in {TemplateRef} |-> TemplateInstances]

NoCall == [op |-> "none"]

\* the module is loaded, nothing has been built or graded
GradeIdle ==
    /\ objects = TemplateObjects
    /\ bundles = <<>>
    /\ call = NoCall
    /\ returned = <<>>

\* the chunker is not in use
ChunkIdle ==
    /\ c_text = <<>>
    /\ chunk_size = 0
    /\ chunk_overlap = 0
    /\ cursor = 0
    /\ chunks = <<>>
    /\ c_pc = "idle"

\* the file names a folder of the data directory may hold, in sorted order
MaxFiles == 2

\* a folder without files
NoFiles == [n \in 1..MaxFiles |-> Absent]

\* the web app is not running: empty data directory, empty page
AppIdle ==
    /\ know_dir = NoFiles
    /\ style_dir = NoFiles
    /\ bundle_path = PyNone
    /\ st_api_key = <<>>
    /\ session_state = [last_grade |-> PyNone, last_retry |-> PyNone]
    /\ rerun = [action |-> "none"]

\* no validation has run
ValidateIdle ==
    /\ trainer_result = PyNone
    /\ retrieved_snippets = <<>>
    /\ validated = PyNone
    /\ v_outcome = "none"

Init ==
    /\ ValidateIdle
    /\ GradeIdle
    /\ ChunkIdle
    /\ AppIdle
    /\ course_profile \in Profiles
    /\ query = <<>>
    /\ k = 0
    /\ outcome = "none"
    /\ snippets = <<>>
    /\ picked = <<>>
    /\ overlaps = <<>>
    /\ repeated = FALSE

\* one call _simple_retrieve_snippets(course_profile, q, k=kk)
Retrieve(q, kk) ==
    /\ \E r \in {SimpleRetrieveSnippets(course_profile, q, kk)} :
           /\ course_profile' = r.profile
           /\ outcome' = IF r.raised THEN "raised" ELSE "returned"
           /\ snippets' = [i \in 1..Len(r.entries) |-> r.entries[i].snippet]
           /\ picked' = [i \in 1..Len(r.entries) |->
                            [path |-> r.entries[i].path, idx |-> r.entries[i].idx,
                             score |-> r.entries[i].score]]
           /\ overlaps' = r.overlaps
    /\ query' = q
    /\ k' = kk
    /\ repeated' = (outcome # "none" /\ q = query /\ kk = k)
    /\ UNCHANGED <<vvars, gvars, cvars, avars>>

Next == \E q \in Queries, kk \in Limits : Retrieve(q, kk)

Spec == Init /\ [][Next]_vars

(***************************************************************************)
(* Vocabulary of the properties, stated over the text itself: a word is a  *)
(* maximal run of word characters, a token a word of the minimum length.   *)
(***************************************************************************)
IsWordAt(s, i, j) ==
    /\ 1 <= i /\ i <= j /\ j <= Len(s)
    /\ \A m \in i..j : s[m] \in WordChars
    /\ (i = 1 \/ s[i - 1] \notin WordChars)
    /\ (j = Len(s) \/ s[j + 1] \notin WordChars)

WordsOf(s) ==
    {SubSeq(s, p[1], p[2]) : p \in {r \in (1..Len(s)) \X (1..Len(s)) : IsWordAt(s, r[1], r[2])}}

OccursAsWord(w, s) ==
    \E i \in 1..Len(s) : IsWordAt(s, i, i + Len(w) - 1) /\ SubSeq(s, i, i + Len(w) - 1) = w

IsSubstring(a, b) ==
    \E i \in 0..(Len(b) - Len(a)) : SubSeq(b, i + 1, i + Len(a)) = a

QueryTokens == {w \in WordsOf(query) : Len(w) >= MinTokenLen}

\* the texts a topic_index item is matched on
ItemTexts(item) ==
    LET kws == OrElse(item.keywords, <<>>)
        subs == OrElse(item.subtopics, <<>>)
    IN  {kws[i] : i \in 1..Len(kws)} \cup {subs[i] : i \in 1..Len(subs)}
        \cup {OrElse(item.topic, <<>>)}

FoundInItem(item) == {w \in QueryTokens : \E x \in ItemTexts(item) : OccursAsWord(w, x)}

FoundInText(text) == {w \in QueryTokens : OccursAsWord(w, text)}

Items == TopicIndex(course_profile)

Docs == RawKnowledge(course_profile)

PositiveItems == {j \in 1..Len(Items) : FoundInItem(Items[j]) # {}}

\* the lines of the knowledge documents long enough to be candidates
CandidateLines ==
    UNION {{<<d, l>> : l \in {n \in 1..Len(SplitLines(Docs[d].text.v)) :
                                 Len(NormalizeWsStr(SplitLines(Docs[d].text.v)[n])) >= MinLineLen}} :
           d \in {e \in 1..Len(Docs) : Truthy(Docs[e].text)}}

LineAt(c) == SplitLines(Docs[c[1]].text.v)[c[2]]

PositiveLines == {c \in CandidateLines : FoundInText(LineAt(c)) # {}}

OnTopicPath == picked # <<>> /\ \A i \in 1..Len(picked) : picked[i].path = "topic"

OnRawPath == picked # <<>> /\ \A i \in 1..Len(picked) : picked[i].path = "raw"

(***************************************************************************)
(* C1.  The returned list is no longer than k and no longer than the       *)
(* number of candidates that score above zero, on the topic_index path and *)
(* on the raw-text path, for every k from 0 up.                            *)
(***************************************************************************)
C1_ResultWithinLimit ==
    outcome = "returned" =>
        /\ Len(snippets) <= k
        /\ OnTopicPath => Len(snippets) <= Cardinality(PositiveItems)
        /\ OnRawPath => Len(snippets) <= Cardinality(PositiveLines)

(***************************************************************************)
(* C2.  No candidate of score 0 is returned: every returned snippet comes  *)
(* from a topic_index item or a raw-text line that shares at least one     *)
(* token with the query.                                                   *)
(***************************************************************************)
C2_NoZeroScore ==
    outcome = "returned" =>
        \A i \in 1..Len(picked) :
            /\ picked[i].score > 0
            /\ picked[i].path = "topic" =>
                   /\ picked[i].idx \in 1..Len(Items)
                   /\ FoundInItem(Items[picked[i].idx]) # {}
            /\ picked[i].path = "raw" => FoundInText(snippets[i].full_text) # {}

\* a call that returned a snippet while leaving out a topic_index item of overlap 0
C2_Witness ==
    /\ outcome = "returned"
    /\ OnTopicPath
    /\ \E j \in 1..Len(overlaps) : overlaps[j] = 0

Min(a, b) == IF a < b THEN a ELSE b

\* a comes before b in descending score order with ties in input order
RanksBefore(a, b) == a.score > b.score \/ (a.score = b.score /\ a.idx < b.idx)

ItemRank(j) == [idx |-> j, score |-> Cardinality(FoundInItem(Items[j]))]

PickedItems == {picked[i].idx : i \in 1..Len(picked)}

(***************************************************************************)
(* C3 as stated.  The returned list holds the k highest-scoring candidates *)
(* in descending score order, equal scores in input order, and exactly k   *)
(* of them when at least k candidates score above zero.  Taken for k >= 1: *)
(* what k = 0 returns is C1's matter.                                      *)
(***************************************************************************)
C3_TopKDescending ==
    (outcome = "returned" /\ k >= 1) =>
        /\ \A i, j \in 1..Len(picked) : i < j => RanksBefore(picked[i], picked[j])
        /\ Len(picked) = Min(k, IF PositiveItems # {} THEN Cardinality(PositiveItems)
                                 ELSE Cardinality(PositiveLines))

(***************************************************************************)
(* C3 as amended.  When the first k of the positively scored topic_index   *)
(* items is not empty the result is exactly that: min(k, number of         *)
(* positive items) items, in descending score order, equal scores in       *)
(* topic_index order, no item left out ranking before a returned one.      *)
(* Otherwise (k = 0, or no item scores above zero) the result is the       *)
(* raw-text fallback's, one line per document in document order.           *)
(***************************************************************************)
C3_TopicTopK ==
    outcome = "returned" =>
        /\ OnTopicPath =>
               /\ Len(picked) = Min(k, Cardinality(PositiveItems))
               /\ \A i \in 1..Len(picked) :
                      /\ picked[i].idx \in PositiveItems
                      /\ picked[i].score = ItemRank(picked[i].idx).score
               /\ \A i, j \in 1..Len(picked) : i < j => RanksBefore(picked[i], picked[j])
               /\ \A u \in PositiveItems \ PickedItems :
                      \A i \in 1..Len(picked) : RanksBefore(picked[i], ItemRank(u))
        /\ ~OnTopicPath =>
               /\ k = 0 \/ PositiveItems = {}
               /\ \A i \in 1..Len(picked) : picked[i].path = "raw"
               /\ \A i, j \in 1..Len(picked) : i < j => picked[i].idx < picked[j].idx

\* k = 2 over three positive items, two of them of equal score
C3_Witness ==
    /\ outcome = "returned"
    /\ OnTopicPath
    /\ k = 2 /\ Len(picked) = k
    /\ Cardinality(PositiveItems) > k
    /\ \E u \in PositiveItems \ PickedItems : ItemRank(u).score = picked[k].score

(***************************************************************************)
(* C4.  When nothing scores above zero (an empty corpus, a corpus whose    *)
(* candidates all score 0, a query without a token of the minimum length)  *)
(* the call returns the empty list and does not raise.                     *)
(***************************************************************************)
C4_EmptyWhenNothingScores ==
    (outcome # "none" /\ PositiveItems = {} /\ PositiveLines = {}) =>
        (outcome = "returned" /\ snippets = <<>>)

\* a call over a non-empty corpus with a query whose only word is too short
C4_Witness ==
    /\ outcome = "returned"
    /\ snippets = <<>>
    /\ QueryTokens = {} /\ query # <<>>
    /\ Items # <<>> /\ CandidateLines # {}

(***************************************************************************)
(* C5.  The retriever never raises, whatever parts of the course profile   *)
(* are missing, None or empty.                                             *)
(***************************************************************************)
C5_NeverRaises == outcome # "raised"

\* the query tokens found in the candidate behind the i-th returned snippet
FoundInPicked(i) ==
    IF picked[i].path = "topic" THEN FoundInItem(Items[picked[i].idx])
    ELSE FoundInText(snippets[i].full_text)

(***************************************************************************)
(* C6 as stated.  The score of a returned candidate is the number of       *)
(* distinct query tokens found in it divided by the number of distinct     *)
(* query tokens, so it is at most 1, and 1 when every token is found.      *)
(***************************************************************************)
C6_ScoreIsFraction ==
    outcome = "returned" =>
        \A i \in 1..Len(picked) :
            /\ picked[i].score * Cardinality(QueryTokens) = Cardinality(FoundInPicked(i))
            /\ picked[i].score <= 1

(***************************************************************************)
(* C6 as amended.  The score of a returned candidate is the number of      *)
(* distinct query tokens found in it, not divided: it lies in 1..N for N   *)
(* distinct query tokens, and is N when the candidate holds them all.      *)
(***************************************************************************)
C6_ScoreIsCount ==
    outcome = "returned" =>
        \A i \in 1..Len(picked) :
            /\ picked[i].score = Cardinality(FoundInPicked(i))
            /\ 1 <= picked[i].score /\ picked[i].score <= Cardinality(QueryTokens)
            /\ FoundInPicked(i) = QueryTokens => picked[i].score = Cardinality(QueryTokens)

\* a returned topic_index item that holds both tokens of a two-token query
C6_Witness ==
    /\ outcome = "returned"
    /\ Cardinality(QueryTokens) = 2
    /\ \E i \in 1..Len(picked) :
           picked[i].path = "topic" /\ FoundInPicked(i) = QueryTokens

LowerChar(c) == IF c = "A" THEN "a" ELSE IF c = "B" THEN "b" ELSE IF c = "C" THEN "c"
                ELSE IF c = "N" THEN "n" ELSE c

Lower(w) == [i \in 1..Len(w) |-> LowerChar(w[i])]

\* the lowercased words of at least two characters that query and item share
SharedMin2Lower(item) ==
    {Lower(w) : w \in {v \in WordsOf(query) : Len(v) >= 2}}
    \cap UNION {{Lower(w) : w \in {v \in WordsOf(x) : Len(v) >= 2}} : x \in ItemTexts(item)}

(***************************************************************************)
(* C7 as stated.  Tokens are lowercase and of minimum length 2: the        *)
(* overlap of a candidate counts every word of two or more characters that *)
(* query and candidate share, whatever the letter case.                    *)
(***************************************************************************)
C7_Min2CaseInsensitive ==
    outcome = "returned" =>
        \A j \in 1..Len(Items) : overlaps[j] = Cardinality(SharedMin2Lower(Items[j]))

(***************************************************************************)
(* C7 as amended.  Tokens keep their letter case and have minimum length   *)
(* 3: the overlap of a candidate counts exactly the query words of three   *)
(* or more characters that occur in the candidate in the same case, so a   *)
(* 2-character word or a word differing in case contributes nothing.       *)
(***************************************************************************)
C7_Min3CaseSensitive ==
    outcome = "returned" =>
        /\ Len(overlaps) = Len(Items)
        /\ \A j \in 1..Len(Items) : overlaps[j] = Cardinality(FoundInItem(Items[j]))

\* an item of overlap 0 although it shares a 2-character word with the query
C7_Witness ==
    /\ outcome = "returned"
    /\ \E j \in 1..Len(Items) :
           /\ overlaps[j] = 0
           /\ \E w \in WordsOf(query) :
                  Len(w) = 2 /\ \E x \in ItemTexts(Items[j]) : OccursAsWord(w, x)

C9_EmptyQueryRejected ==
    (outcome # "none" /\ NormalizeWsStr(query) = <<>>) => outcome = "raised"

(***************************************************************************)
(* C9 as amended.  An empty query is not rejected: the retriever returns   *)
(* the empty list for it and raises nothing.                               *)
(***************************************************************************)
C9_EmptyQueryReturnsEmpty ==
    (outcome # "none" /\ NormalizeWsStr(query) = <<>>) =>
        (outcome = "returned" /\ snippets = <<>>)

\* an empty query over a profile with topic_index items and candidate lines
C9_Witness ==
    /\ outcome = "returned"
    /\ query = <<>>
    /\ Items # <<>> /\ CandidateLines # {}

\* the snippet's quote occurs in the normalized text of the document it names
QuoteInSource(sn) ==
    /\ sn.quote.st = "val"
    /\ \E d \in 1..Len(Docs) :
           /\ sn.doc_id = Val(Docs[d].doc_id)
           /\ IsSubstring(sn.quote.v, NormalizeWsStr(OrElse(Docs[d].text, <<>>)))

(***************************************************************************)
(* C10 as stated.  The quote of every returned snippet is a verbatim       *)
(* substring of the whitespace-normalized text of the document named by    *)
(* the snippet's doc_id.                                                   *)
(***************************************************************************)
C10_QuoteInSource ==
    outcome = "returned" => \A i \in 1..Len(snippets) : QuoteInSource(snippets[i])

(***************************************************************************)
(* C10 as amended.  The quote of every snippet returned from the raw       *)
(* knowledge text is a verbatim substring of the whitespace-normalized     *)
(* text of the document named by its doc_id; a snippet returned from the   *)
(* topic_index carries the quote of the item's first source unchecked.     *)
(***************************************************************************)
C10_RawQuoteInSource ==
    outcome = "returned" =>
        \A i \in 1..Len(snippets) : picked[i].path = "raw" => QuoteInSource(snippets[i])

\* a raw-text snippet whose quote is not in the document's text as stored
C10_Witness ==
    /\ outcome = "returned"
    /\ \E i \in 1..Len(snippets) :
           /\ picked[i].path = "raw"
           /\ ~IsSubstring(snippets[i].quote.v, Docs[picked[i].idx].text.v)

(***************************************************************************)
(* _validate_quotes_in_result: every quote of the trainer result is        *)
(* looked up in the retrieved snippets; a quote that is not found is       *)
(* tagged and its diagnostic's severity lowered.                           *)
(***************************************************************************)
\* a in b, for two str
In(a, b) ==
    \E i \in 0..(Len(b) - Len(a)) : SubSeq(b, i + 1, i + Len(a)) = a

\* haystacks: per snippet its normalized full_text, then its normalized quote
Haystacks(sns) ==
    {NormalizeWsStr(sns[i].full_text) : i \in 1..Len(sns)}
    \cup {NormalizeWs(GetDefault(sns[i].quote, <<>>)) : i \in 1..Len(sns)}

\* QuoteOk looking the quote up as it is written
QuoteOkRaw(q, haystacks) ==
    q = <<>> \/ \E h \in haystacks : h # <<>> /\ In(q, h)

\* _quote_ok
QuoteOk(q, haystacks) ==
    LET qn == NormalizeWsStr(q)
    IN  qn = <<>> \/ \E h \in haystacks : h # <<>> /\ In(qn, h)

\* qt = entry.get("quote", ""); qt and not _quote_ok(qt)
IsInvalid(entry, haystacks) ==
    LET qt == GetDefault(entry.quote, <<>>)
    IN  Truthy(qt) /\ ~QuoteOk(qt.v, haystacks)

\* Downgrade going to "low" at once
DowngradeToLow(severity) ==
    IF severity \in {Val("high"), Val("medium")} THEN Val("low") ELSE severity

\* the severity after one invalid quote
Downgrade(severity) ==
    IF severity = Val("high") THEN Val("medium")
    ELSE IF severity = Val("medium") THEN Val("low")
    ELSE severity

\* for ev in evs, from the i-th on, within diagnostic d
RECURSIVE ValidateEvidence(_, _, _)
ValidateEvidence(d, haystacks, i) ==
    LET evs == OrElse(d.evidence, <<>>)
    IN  IF i > Len(evs) THEN d
        ELSE IF IsInvalid(evs[i], haystacks)
        THEN ValidateEvidence(
                 [d EXCEPT !.evidence =
                               Val([evs EXCEPT ![i] = [@ EXCEPT !.invalid_quote = Val(TRUE)]]),
                           !.severity = Downgrade(@)],
                 haystacks, i + 1)
        ELSE ValidateEvidence(d, haystacks, i + 1)

\* for d in diags
ValidateDiagnostics(diagnostics, haystacks) ==
    IF ~Truthy(diagnostics) THEN diagnostics
    ELSE Val([i \in 1..Len(diagnostics.v) |-> ValidateEvidence(diagnostics.v[i], haystacks, 1)])

\* TagEntries leaving out the entries whose quote is not found
DropInvalidEntries(entries, haystacks) ==
    IF ~Truthy(entries) THEN entries
    ELSE Val(SelectSeq(entries.v, LAMBDA c : ~IsInvalid(c, haystacks)))

\* for c in cits / for c in sq
TagEntries(entries, haystacks) ==
    IF ~Truthy(entries) THEN entries
    ELSE Val([i \in 1..Len(entries.v) |->
                 IF IsInvalid(entries.v[i], haystacks)
                 THEN [entries.v[i] EXCEPT !.invalid_quote = Val(TRUE)]
                 ELSE entries.v[i]])

\* the citations of (trainer_result.get("assistant_answer") or {}), tagged
ValidateCitations(assistant_answer, haystacks) ==
    IF assistant_answer.st # "val" THEN assistant_answer
    ELSE Val([assistant_answer.v EXCEPT !.citations = TagEntries(@, haystacks)])

\* the supporting_quotes of (trainer_result.get("review_plan") or {}), tagged
ValidateSupportingQuotes(review_plan, haystacks) ==
    IF review_plan.st # "val" THEN review_plan
    ELSE Val([review_plan.v EXCEPT !.supporting_quotes = TagEntries(@, haystacks)])

ValidateQuotesInResult(tr, sns) ==
    LET haystacks == Haystacks(sns)
    IN  [diagnostics |-> ValidateDiagnostics(tr.diagnostics, haystacks),
         assistant_answer |-> ValidateCitations(tr.assistant_answer, haystacks),
         review_plan |-> ValidateSupportingQuotes(tr.review_plan, haystacks)]

(***************************************************************************)
(* The inputs of the validation: trainer results of the shape of           *)
(* trainer_result_schema, and snippet lists as the retriever returns them. *)
(***************************************************************************)
MaxEvidence == 2

QFound == wAbc
QMessy == wAbc \o SP \o NL \o wXyz
QMissing == <<"q", "q", "q">>

Entry(quote) == [quote |-> quote, invalid_quote |-> Absent]

\* entries whose quote is found, found once normalized, blank, or not found
EntryPool == {Entry(Val(q)) : q \in {QFound, QMessy, SP \o SP, QMissing}}

\* lists of them, lists of an entry whose quote is missing, None or empty, and a
\* list that is itself missing or None
EntryLists ==
    {Val(l) : l \in SeqsUpTo(EntryPool, MaxEvidence)
                     \cup {<<Entry(q)>> : q \in {Absent, PyNone, Val(<<>>)}}}
    \cup {Absent, PyNone}

Severities == {Val("high"), Val("medium"), Val("low"), Absent}

Diagnostic(severity, evidence) == [severity |-> severity, evidence |-> evidence]

TrainerResult(diagnostics, assistant_answer, review_plan) ==
    [diagnostics |-> diagnostics, assistant_answer |-> assistant_answer,
     review_plan |-> review_plan]

DiagnosticPairs ==
    LET few == {Diagnostic(Val("high"), Val(<<Entry(Val(QMissing)), Entry(Val(QMessy))>>)),
                Diagnostic(Val("medium"), Val(<<Entry(Val(QFound))>>)),
                Diagnostic(Val("low"), Val(<<Entry(Val(QMissing))>>))}
    IN  {<<d1, d2>> : d1 \in few, d2 \in few}

TrainerResults ==
    {TrainerResult(Val(<<Diagnostic(sv, ev)>>), Absent, Absent) :
        sv \in Severities, ev \in EntryLists}
    \cup {TrainerResult(Val(ds), Absent, PyNone) : ds \in DiagnosticPairs}
    \cup {TrainerResult(dg, Absent, Absent) : dg \in {Absent, PyNone, Val(<<>>)}}
    \cup {TrainerResult(Absent, Val([citations |-> c]), Absent) : c \in EntryLists}
    \cup {TrainerResult(PyNone, PyNone, Val([supporting_quotes |-> c])) : c \in EntryLists}
    \cup {TrainerResult(Val(ds), Val([citations |-> Val(<<Entry(Val(q))>>)]),
                        Val([supporting_quotes |-> Val(<<Entry(Val(q)), Entry(Val(QFound))>>)])) :
             ds \in DiagnosticPairs, q \in {QMessy, QMissing}}

SnippetsOf(r) == [i \in 1..Len(r.entries) |-> r.entries[i].snippet]

\* the empty list, and the lists retrieved from three profiles for two queries
SnippetLists ==
    {<<>>} \cup {SnippetsOf(SimpleRetrieveSnippets(cp, q, MaxK)) :
                    cp \in {Profile(Brain(Val(<<ItemAbc>>)), RawDocsOf(<<Val(TextTwo)>>)),
                            Profile(Brain(Val(<<>>)), RawDocsOf(<<Val(TextTwo)>>)),
                            Profile(Brain(Val(<<[ItemAbc EXCEPT !.sources =
                                Val(<<Val([doc_id |-> Absent, page |-> Val(1),
                                           quote |-> PyNone])>>)]>>)),
                                    RawDocsOf(<<>>))},
                    q \in {wAbc, wAbc \o SP \o wXyz}}

\* no retrieval is under way
RetrieveIdle ==
    /\ course_profile = PyNone
    /\ query = <<>>
    /\ k = 0
    /\ outcome = "none"
    /\ snippets = <<>>
    /\ picked = <<>>
    /\ overlaps = <<>>
    /\ repeated = FALSE

\* a trainer result and a snippet list are at hand, not yet validated
InitValidate ==
    /\ RetrieveIdle
    /\ GradeIdle
    /\ ChunkIdle
    /\ AppIdle
    /\ trainer_result \in {Val(tr) : tr \in TrainerResults}
    /\ retrieved_snippets \in SnippetLists
    /\ validated = PyNone
    /\ v_outcome = "none"

\* the call _validate_quotes_in_result(trainer_result, retrieved_snippets);
\* trainer_result keeps the result as it was handed in
Validate ==
    /\ v_outcome = "none"
    /\ validated' = Val(ValidateQuotesInResult(trainer_result.v, retrieved_snippets))
    /\ v_outcome' = "returned"
    /\ UNCHANGED <<vars, gvars, cvars, avars, trainer_result, retrieved_snippets>>

NextValidate == Validate

SpecValidate == InitValidate /\ [][NextValidate]_allvars

(***************************************************************************)
(* Vocabulary of the validation properties: the places of a trainer result *)
(* that hold quotes, and what it means for a quote to be found.            *)
(***************************************************************************)
Flagged(entry) == entry.invalid_quote = Val(TRUE)

\* the entry lists of a trainer result, by place
DiagnosticsOf(tr) == IF tr.diagnostics.st = "val" THEN tr.diagnostics.v ELSE <<>>

ListOf(o) == IF o.st = "val" THEN o.v ELSE <<>>

EvidenceOf(tr, i) == ListOf(DiagnosticsOf(tr)[i].evidence)

CitationsOf(tr) ==
    IF tr.assistant_answer.st = "val" THEN ListOf(tr.assistant_answer.v.citations) ELSE <<>>

SupportingQuotesOf(tr) ==
    IF tr.review_plan.st = "val" THEN ListOf(tr.review_plan.v.supporting_quotes) ELSE <<>>

\* every list of entries of a trainer result
EntryListsOf(tr) ==
    {EvidenceOf(tr, i) : i \in 1..Len(DiagnosticsOf(tr))}
    \cup {CitationsOf(tr), SupportingQuotesOf(tr)}

EntriesOf(tr) == UNION {{l[i] : i \in 1..Len(l)} : l \in EntryListsOf(tr)}

\* the whitespace-normalized quote of an entry, empty when it has none
NormalizedQuote(entry) ==
    IF entry.quote.st = "val" THEN NormalizeWsStr(entry.quote.v) ELSE <<>>

\* the quote occurs in the normalized full_text or quote of a retrieved snippet
FoundInSnippets(qn) ==
    \E i \in 1..Len(retrieved_snippets) :
        \/ IsSubstring(qn, NormalizeWsStr(retrieved_snippets[i].full_text))
        \/ /\ retrieved_snippets[i].quote.st = "val"
           /\ IsSubstring(qn, NormalizeWsStr(retrieved_snippets[i].quote.v))

SeverityRank(sv) ==
    IF sv = Val("high") THEN 3 ELSE IF sv = Val("medium") THEN 2
    ELSE IF sv = Val("low") THEN 1 ELSE 0

\* list b is list a with nothing but invalid_quote flags added
OnlyTagged(a, b) ==
    /\ Len(b) = Len(a)
    /\ \A i \in 1..Len(a) :
           /\ b[i].quote = a[i].quote
           /\ b[i].invalid_quote \in {a[i].invalid_quote, Val(TRUE)}

\* option b is option a, its entries at most tagged
OnlyTaggedOption(a, b) ==
    /\ b.st = a.st
    /\ a.st = "val" => OnlyTagged(a.v, b.v)

(***************************************************************************)
(* C11: the validation pass only tags: the result it returns has the same  *)
(* diagnostics, the same evidence entries per diagnostic, the same         *)
(* citations and the same supporting quotes, in the same order and with    *)
(* the same quote text; nothing changes but invalid_quote flags set to     *)
(* true and severities lowered.                                            *)
(***************************************************************************)
C11_OnlyTags ==
    v_outcome = "returned" =>
        LET a == trainer_result.v
            b == validated.v
        IN  /\ b.diagnostics.st = a.diagnostics.st
            /\ Len(DiagnosticsOf(b)) = Len(DiagnosticsOf(a))
            /\ \A i \in 1..Len(DiagnosticsOf(a)) :
                   /\ OnlyTaggedOption(DiagnosticsOf(a)[i].evidence, DiagnosticsOf(b)[i].evidence)
                   /\ \/ DiagnosticsOf(b)[i].severity = DiagnosticsOf(a)[i].severity
                      \/ /\ SeverityRank(DiagnosticsOf(b)[i].severity) >= 1
                         /\ SeverityRank(DiagnosticsOf(b)[i].severity)
                                < SeverityRank(DiagnosticsOf(a)[i].severity)
            /\ b.assistant_answer.st = a.assistant_answer.st
            /\ a.assistant_answer.st = "val" =>
                   OnlyTaggedOption(a.assistant_answer.v.citations,
                                    b.assistant_answer.v.citations)
            /\ b.review_plan.st = a.review_plan.st
            /\ a.review_plan.st = "val" =>
                   OnlyTaggedOption(a.review_plan.v.supporting_quotes,
                                    b.review_plan.v.supporting_quotes)

\* a result with an unverifiable quote in each of the three places came back
C11_Witness ==
    /\ v_outcome = "returned"
    /\ \E i \in 1..Len(DiagnosticsOf(validated.v)) :
           /\ \E j \in 1..Len(EvidenceOf(validated.v, i)) : Flagged(EvidenceOf(validated.v, i)[j])
           /\ DiagnosticsOf(validated.v)[i].severity # DiagnosticsOf(trainer_result.v)[i].severity
    /\ \E j \in 1..Len(CitationsOf(validated.v)) : Flagged(CitationsOf(validated.v)[j])
    /\ \E j \in 1..Len(SupportingQuotesOf(validated.v)) :
           Flagged(SupportingQuotesOf(validated.v)[j])

FlaggedCount(tr, i) ==
    Cardinality({j \in 1..Len(EvidenceOf(tr, i)) : Flagged(EvidenceOf(tr, i)[j])})

C20_SeverityLoweredPerFlag ==
    v_outcome = "returned" =>
        \A i \in 1..Len(DiagnosticsOf(validated.v)) :
            LET before == DiagnosticsOf(trainer_result.v)[i].severity
                after == DiagnosticsOf(validated.v)[i].severity
                n == FlaggedCount(validated.v, i)
            IN  IF SeverityRank(before) = 0 THEN after = before
                ELSE SeverityRank(after) =
                         (IF SeverityRank(before) - n < 1 THEN 1 ELSE SeverityRank(before) - n)

\* a high diagnostic with two flagged evidence entries ended low
C20_Witness ==
    /\ v_outcome = "returned"
    /\ \E i \in 1..Len(DiagnosticsOf(validated.v)) :
           /\ DiagnosticsOf(trainer_result.v)[i].severity = Val("high")
           /\ FlaggedCount(validated.v, i) = 2
           /\ DiagnosticsOf(validated.v)[i].severity = Val("low")

(***************************************************************************)
(* The client and the model service.                                       *)
(***************************************************************************)
GradeK == 6
RetryK == 7
AssistantK == 6

\* the parameters of _get_client
ClientParams == {"api_key", "timeout_seconds"}

\* the keyword arguments build_course_bundle, grade_answer, grade_exam_retry and
\* assistant_answer call _get_client with
ClientKeywords == {"api_key", "base_url", "timeout_seconds"}

Ended(how, error, effects, result, objs) ==
    [outcome |-> how, error |-> error, effects |-> effects, result |-> result,
     objects |-> objs]

\* _get_client(**keywords): a keyword that is no parameter is a TypeError of the
\* call itself; env_key is os.getenv("OPENAI_API_KEY")
GetClient(keywords, api_key, env_key) ==
    IF ~(keywords \subseteq ClientParams) THEN [raised |-> TRUE, error |-> "TypeError"]
    ELSE IF ~Truthy(api_key) /\ ~Truthy(env_key)
    THEN [raised |-> TRUE, error |-> "ValueError"]
    ELSE [raised |-> FALSE, error |-> ""]

\* _extract_json_object(content): content is None, blank, a JSON text or another
\* text; the fallback pattern of line 253 does not compile, so re.search raises
ExtractJsonObject(content) ==
    IF content.st \in {"none", "blank"} THEN [raised |-> TRUE, error |-> "ValueError"]
    ELSE IF content.st = "json" THEN [raised |-> FALSE, error |-> "", obj |-> content.v]
    ELSE [raised |-> TRUE, error |-> "re.error"]

(***************************************************************************)
(* Bundles in memory.                                                      *)
(***************************************************************************)
\* CopyTemplate handing out the template's own "instances" dict
CopyTemplateShared(objs) == [objects |-> objs, ref |-> TemplateRef]

\* bundle = json.loads(json.dumps(ENGINE_BUNDLE_TEMPLATE)): a fresh copy
CopyTemplate(objs) ==
    LET new == Cardinality(DOMAIN objs)
    IN  [objects |-> [a \in DOMAIN objs \cup {new} |->
                         IF a = new THEN objs[TemplateRef] ELSE objs[a]],
         ref |-> new]

\* root["instances"]["active_course_profile"] = course_profile
\* root["instances"]["last_trainer_result"] = None
ComposeBundle(objs, cp) ==
    LET b == CopyTemplate(objs)
    IN  [objects |-> [b.objects EXCEPT ![b.ref] =
                         [active_course_profile |-> Val(cp), last_trainer_result |-> PyNone]],
         ref |-> b.ref]

\* the course_profile dict build_course_bundle composes
ComposeProfile(doc_registry, topic_index, solutions, raw_knowledge, raw_style) ==
    [doc_registry |-> Val(doc_registry),
     knowledge_brain |-> Val([topic_index |-> Val(topic_index)]),
     style_brain |-> Val([solutions_bank |-> Val([solutions |-> Val(solutions)])]),
     raw_docs |-> Val([knowledge |-> Val(raw_knowledge), style |-> Val(raw_style)])]

StyleDocId(i) == IF i = 1 THEN "S1" ELSE IF i = 2 THEN "S2" ELSE IF i = 3 THEN "S3" ELSE "S4"

\* _add_docs(docs, doc_type, prefix): the registry entries and the raw texts
AddDocs(docs, doc_type) ==
    [i \in 1..Len(docs) |->
        [doc_id |-> IF doc_type = "knowledge" THEN DocId(i) ELSE StyleDocId(i),
         type |-> doc_type,
         name |-> GetDefault(docs[i].name, <<doc_type, i>>),
         text |-> Val(OrElse(docs[i].text, <<>>))]]

RegistryOf(added) ==
    [i \in 1..Len(added) |->
        [doc_id |-> added[i].doc_id, type |-> added[i].type, name |-> added[i].name]]

RawOf(added) ==
    [i \in 1..Len(added) |-> [doc_id |-> added[i].doc_id, text |-> added[i].text]]

\* the (x.get(key) or []) of one model response of build_course_bundle
RECURSIVE ExtractAll(_, _, _)
ExtractAll(responses, i, acc) ==
    IF i > Len(responses) THEN [raised |-> FALSE, error |-> "", lists |-> acc]
    ELSE IF responses[i].kind = "error" THEN [raised |-> TRUE, error |-> "APIError"]
    ELSE LET x == ExtractJsonObject(responses[i].content)
         IN  IF x.raised THEN [raised |-> TRUE, error |-> x.error]
             ELSE ExtractAll(responses, i + 1, Append(acc, OrElse(x.obj, <<>>)))

\* build_course_bundle(knowledge_docs=..., style_docs=..., api_key=...); the
\* responses are those of the four model calls: topics, terms, questions, solutions
BuildCourseBundle(objs, a) ==
    LET knowledge == AddDocs(a.knowledge_docs, "knowledge")
        style == AddDocs(a.style_docs, "style")
        client == GetClient(ClientKeywords, a.api_key, a.env_key)
        x == ExtractAll(a.responses, 1, <<>>)
        b == ComposeBundle(objs,
                 ComposeProfile(RegistryOf(knowledge) \o RegistryOf(style),
                                x.lists[1], x.lists[4], RawOf(knowledge), RawOf(style)))
    IN  IF client.raised THEN Ended("raised", client.error, <<>>, PyNone, objs)
        ELSE IF x.raised THEN Ended("raised", x.error, <<"client", "model">>, PyNone, objs)
        ELSE Ended("returned", "", <<"client", "model", "model", "model", "model">>,
                   Val(b.ref), b.objects)

(***************************************************************************)
(* grade_answer, grade_exam_retry, assistant_answer.                       *)
(***************************************************************************)
\* (question_text or "") + "\n" + (student_answer or "")
GradeQuery(a) == OrElse(a.question_text, <<>>) \o NL \o OrElse(a.student_answer, <<>>)

\* (course_profile.get("style_brain") or {}).get("solutions_bank") or {}, then
\* solutions_bank.get("solutions") or []
Solutions(cp) ==
    IF cp.style_brain.st # "val" THEN <<>>
    ELSE IF cp.style_brain.v.solutions_bank.st # "val" THEN <<>>
    ELSE OrElse(cp.style_brain.v.solutions_bank.v.solutions, <<>>)

\* {"mode": "assistant", "assistant_answer": obj.get("assistant_answer", {})}
AssistantResult(obj) ==
    TrainerResult(Absent,
                  IF obj.assistant_answer.st = "absent" THEN Val([citations |-> Absent])
                  ELSE obj.assistant_answer,
                  Absent)

\* from the retrieval on: retrieve, call the model service, parse, validate, store
\* in the bundle and return (grade_answer 553-578, grade_exam_retry 601-627,
\* assistant_answer 645-664)
RetrieveCallStore(objs, ref, cp, q, kk, response, assistant) ==
    LET r == SimpleRetrieveSnippets(cp, q, kk)
        x == ExtractJsonObject(response.content)
        tr == IF assistant THEN AssistantResult(x.obj) ELSE x.obj
        result == Val(ValidateQuotesInResult(tr, SnippetsOf(r)))
    IN  IF r.raised THEN Ended("raised", "TypeError", <<"client", "retrieve">>, PyNone, objs)
        ELSE IF response.kind = "error"
        THEN Ended("raised", "APIError", <<"client", "retrieve", "model">>, PyNone, objs)
        ELSE IF x.raised
        THEN Ended("raised", x.error, <<"client", "retrieve", "model">>, PyNone, objs)
        ELSE Ended("returned", "", <<"client", "retrieve", "model">>, result,
                   [objs EXCEPT ![ref].last_trainer_result = result])

\* GradeAnswer creating the client before it checks its input
GradeAnswerClientFirst(objs, ref, a) ==
    LET cp == objs[ref].active_course_profile
        client == GetClient(ClientKeywords, a.api_key, a.env_key)
    IN  IF client.raised THEN Ended("raised", client.error, <<>>, PyNone, objs)
        ELSE IF a.mode \notin {"coach", "examiner"}
        THEN Ended("raised", "ValueError", <<"client">>, PyNone, objs)
        ELSE IF cp.st # "val" THEN Ended("raised", "ValueError", <<"client">>, PyNone, objs)
        ELSE RetrieveCallStore(objs, ref, cp.v, GradeQuery(a), GradeK, a.response, FALSE)

\* GradeAnswer keeping a record of a failed call in the bundle
GradeAnswerStoringFailure(objs, ref, a) ==
    LET cp == objs[ref].active_course_profile
        client == GetClient(ClientKeywords, a.api_key, a.env_key)
        failed == [objs EXCEPT ![ref].last_trainer_result = Val([error |-> TRUE])]
    IN  IF a.mode \notin {"coach", "examiner"}
        THEN Ended("raised", "ValueError", <<>>, PyNone, failed)
        ELSE IF cp.st # "val" THEN Ended("raised", "ValueError", <<>>, PyNone, failed)
        ELSE IF client.raised THEN Ended("raised", client.error, <<>>, PyNone, failed)
        ELSE RetrieveCallStore(objs, ref, cp.v, GradeQuery(a), GradeK, a.response, FALSE)

\* grade_answer(bundle, student_answer=..., question_text=..., mode=..., api_key=...)
GradeAnswer(objs, ref, a) ==
    LET cp == objs[ref].active_course_profile
        client == GetClient(ClientKeywords, a.api_key, a.env_key)
    IN  IF a.mode \notin {"coach", "examiner"}
        THEN Ended("raised", "ValueError", <<>>, PyNone, objs)
        ELSE IF cp.st # "val" THEN Ended("raised", "ValueError", <<>>, PyNone, objs)
        ELSE IF client.raised THEN Ended("raised", client.error, <<>>, PyNone, objs)
        ELSE RetrieveCallStore(objs, ref, cp.v, GradeQuery(a), GradeK, a.response, FALSE)

\* GradeExamRetry reading the solutions bank with setdefault
GradeExamRetrySetDefault(objs, ref, a) ==
    LET cp == objs[ref].active_course_profile
        client == GetClient(ClientKeywords, a.api_key, a.env_key)
        touched == IF cp.st = "val" /\ cp.v.style_brain.st # "val"
                   THEN [objs EXCEPT ![ref].active_course_profile =
                            Val([cp.v EXCEPT !.style_brain =
                                                Val([solutions_bank |-> Absent])])]
                   ELSE objs
    IN  IF cp.st # "val" THEN Ended("raised", "ValueError", <<>>, PyNone, objs)
        ELSE IF Solutions(cp.v) = <<>> THEN Ended("raised", "ValueError", <<>>, PyNone, touched)
        ELSE IF client.raised THEN Ended("raised", client.error, <<>>, PyNone, touched)
        ELSE RetrieveCallStore(touched, ref, cp.v, GradeQuery(a), RetryK, a.response, FALSE)

\* grade_exam_retry(bundle, student_answer=..., question_text=..., api_key=...)
GradeExamRetry(objs, ref, a) ==
    LET cp == objs[ref].active_course_profile
        client == GetClient(ClientKeywords, a.api_key, a.env_key)
    IN  IF cp.st # "val" THEN Ended("raised", "ValueError", <<>>, PyNone, objs)
        ELSE IF Solutions(cp.v) = <<>> THEN Ended("raised", "ValueError", <<>>, PyNone, objs)
        ELSE IF client.raised THEN Ended("raised", client.error, <<>>, PyNone, objs)
        ELSE RetrieveCallStore(objs, ref, cp.v, GradeQuery(a), RetryK, a.response, FALSE)

\* assistant_answer(bundle, question=..., api_key=...)
AssistantAnswer(objs, ref, a) ==
    LET cp == objs[ref].active_course_profile
        client == GetClient(ClientKeywords, a.api_key, a.env_key)
    IN  IF cp.st # "val" THEN Ended("raised", "ValueError", <<>>, PyNone, objs)
        ELSE IF client.raised THEN Ended("raised", client.error, <<>>, PyNone, objs)
        ELSE RetrieveCallStore(objs, ref, cp.v, a.question, AssistantK, a.response, TRUE)

(***************************************************************************)
(* The inputs explored: bundles as composed, arguments, model responses.   *)
(***************************************************************************)
MaxBundles == 2

Doc(name, text) == [name |-> name, text |-> text]

KnowledgeDocs == <<Doc(Val(<<"n">>), Val(TextTwo))>>

StyleDocs == <<Doc(Absent, Val(LineAbc))>>

\* course profiles as build_course_bundle composes them
BuiltProfiles ==
    {ComposeProfile(RegistryOf(AddDocs(KnowledgeDocs, "knowledge"))
                        \o RegistryOf(AddDocs(StyleDocs, "style")),
                    ti, sols,
                    RawOf(AddDocs(KnowledgeDocs, "knowledge")),
                    RawOf(AddDocs(StyleDocs, "style"))) :
        ti \in {<<>>, <<ItemAbc>>}, sols \in {<<>>, <<[solution_id |-> "sol1"]>>}}

\* profiles whose style_brain lacks parts
BankShapes ==
    {[cp EXCEPT !.style_brain = sb] :
        cp \in {p \in BuiltProfiles : Solutions(p) # <<>>},
        sb \in {Absent, PyNone, Val([solutions_bank |-> PyNone]),
                Val([solutions_bank |-> Val([solutions |-> PyNone])])}}

\* what a bundle may hold: no profile yet, or a profile
BundleContents == {PyNone} \cup {Val(cp) : cp \in BuiltProfiles \cup BankShapes}

\* the bundles made one after the other from the template
RECURSIVE MakeBundles(_, _, _, _)
MakeBundles(contents, i, objs, refs) ==
    IF i > Len(contents) THEN [objects |-> objs, refs |-> refs]
    ELSE LET b == IF contents[i].st = "val" THEN ComposeBundle(objs, contents[i].v)
                  ELSE CopyTemplate(objs)
         IN  MakeBundles(contents, i + 1, b.objects, Append(refs, b.ref))

ApiKeys == {PyNone, Val(<<"k">>)}

\* the model service fails, or answers with a content
Responses ==
    {[kind |-> "error"],
     [kind |-> "content", content |-> [st |-> "blank"]],
     [kind |-> "content", content |-> [st |-> "text"]],
     [kind |-> "content",
      content |-> [st |-> "json",
                   v |-> TrainerResult(
                             Val(<<Diagnostic(Val("high"), Val(<<Entry(Val(QMissing))>>))>>),
                             Val([citations |-> Val(<<Entry(Val(QFound))>>)]),
                             Absent)]]}

GradeArgs ==
    [student_answer : {Val(wAbc)}, question_text : {PyNone, Val(wXyz)},
     mode : {"coach", "examiner", "tutor"},
     api_key : ApiKeys, env_key : ApiKeys, response : Responses]

RetryArgs ==
    [student_answer : {Val(wAbc)}, question_text : {PyNone, Val(wXyz)},
     api_key : ApiKeys, env_key : ApiKeys, response : Responses]

AssistantArgs ==
    [question : {wAbc, <<>>}, api_key : ApiKeys, env_key : ApiKeys, response : Responses]

BuildArgs ==
    [knowledge_docs : {KnowledgeDocs, <<>>}, style_docs : {StyleDocs}, api_key : ApiKeys,
     env_key : ApiKeys,
     responses :
         {[i \in 1..4 |-> [kind |-> "content", content |-> [st |-> "json", v |-> Val(<<>>)]]],
          [i \in 1..4 |-> IF i = 2 THEN [kind |-> "error"]
                          ELSE [kind |-> "content",
                                content |-> [st |-> "json", v |-> Absent]]]}]

(***************************************************************************)
(* The state machine: bundles made from the template, then any sequence of *)
(* builds, gradings and questions over them.                               *)
(***************************************************************************)
InitGrade ==
    /\ RetrieveIdle
    /\ ValidateIdle
    /\ ChunkIdle
    /\ AppIdle
    /\ \E first \in BundleContents,
          rest \in [2..MaxBundles ->
                       {Val(cp) : cp \in {p \in BuiltProfiles :
                                              p.knowledge_brain.v.topic_index.v # <<>>}}] :
           LET m == MakeBundles([i \in 1..MaxBundles |-> IF i = 1 THEN first ELSE rest[i]],
                                1, TemplateObjects, <<>>)
           IN  /\ objects = m.objects
               /\ bundles = m.refs
    /\ call = NoCall
    /\ returned = [s \in 1..MaxBundles |-> PyNone]

Called(op, s, mode, r) ==
    [op |-> op, slot |-> s, mode |-> mode, outcome |-> r.outcome, error |-> r.error,
     effects |-> r.effects, result |-> r.result]

\* bundle = build_course_bundle(...), the caller's s-th bundle
Build(s, a) ==
    /\ \E r \in {BuildCourseBundle(objects, a)} :
           /\ objects' = r.objects
           /\ call' = Called("build_course_bundle", s, "", r)
           /\ bundles' = IF r.outcome = "returned" THEN [bundles EXCEPT ![s] = r.result.v]
                         ELSE bundles
           /\ returned' = IF r.outcome = "returned" THEN [returned EXCEPT ![s] = PyNone]
                          ELSE returned
    /\ UNCHANGED <<vars, vvars, cvars, avars>>

\* what a grading or question-answering call leaves behind
Graded(op, s, mode, r) ==
    /\ objects' = r.objects
    /\ call' = Called(op, s, mode, r)
    /\ returned' = IF r.outcome = "returned" THEN [returned EXCEPT ![s] = r.result]
                   ELSE returned
    /\ UNCHANGED <<bundles, vars, vvars, cvars, avars>>

Grade(s, a) ==
    \E r \in {GradeAnswer(objects, bundles[s], a)} : Graded("grade_answer", s, a.mode, r)

Retry(s, a) ==
    \E r \in {GradeExamRetry(objects, bundles[s], a)} : Graded("grade_exam_retry", s, "", r)

Ask(s, a) ==
    \E r \in {AssistantAnswer(objects, bundles[s], a)} : Graded("assistant_answer", s, "", r)

NextGrade ==
    \E s \in 1..MaxBundles :
        \/ \E a \in BuildArgs : Build(s, a)
        \/ \E a \in GradeArgs : Grade(s, a)
        \/ \E a \in RetryArgs : Retry(s, a)
        \/ \E a \in AssistantArgs : Ask(s, a)

SpecGrade == InitGrade /\ [][NextGrade]_allvars

(***************************************************************************)
(* Vocabulary of the properties of the operations.                         *)
(***************************************************************************)
GradingOps == {"grade_answer", "grade_exam_retry", "assistant_answer"}

\* the "instances" dict of the caller's s-th bundle
InstancesOf(s) == objects[bundles[s]]

\* the profile holds at least one solution
HasSolutions(cp) ==
    /\ cp.style_brain.st = "val"
    /\ cp.style_brain.v.solutions_bank.st = "val"
    /\ cp.style_brain.v.solutions_bank.v.solutions.st = "val"
    /\ Len(cp.style_brain.v.solutions_bank.v.solutions.v) > 0

\* the latest call was given a mode, a bundle and a profile its operation accepts
PassedInputChecks ==
    /\ call.op \in GradingOps
    /\ call.op = "grade_answer" => call.mode \in {"coach", "examiner"}
    /\ InstancesOf(call.slot).active_course_profile.st = "val"
    /\ call.op = "grade_exam_retry" =>
           HasSolutions(InstancesOf(call.slot).active_course_profile.v)

\* the retrievals and model calls of the latest call, in the order they were made
RetrievalsAndModelCalls ==
    SelectSeq(call.effects, LAMBDA e : e \in {"retrieve", "model"})

(***************************************************************************)
(* C13: a grading or question-answering call on a bundle that passes the   *)
(* input checks performs exactly one retrieval and then exactly one call   *)
(* to the model service: the retrieval comes first and neither is repeated.*)
(***************************************************************************)
C13_RetrieveThenCallOnce ==
    PassedInputChecks => RetrievalsAndModelCalls = <<"retrieve", "model">>

C15_TemplateUntouched ==
    [][/\ objects[TemplateRef] = TemplateInstances
       /\ objects'[TemplateRef] = TemplateInstances
       /\ \A s \in 1..MaxBundles :
              /\ bundles'[s] # TemplateRef
              /\ \A t \in 1..MaxBundles : bundles'[s] = bundles'[t] => s = t
              /\ s # call'.slot => objects'[bundles'[s]] = InstancesOf(s)]_allvars

\* a call was made on one of two bundles that both hold a profile
C15_Witness ==
    /\ call.op \in GradingOps \cup {"build_course_bundle"}
    /\ \A s \in 1..MaxBundles : InstancesOf(s).active_course_profile.st = "val"
    /\ \E s \in 1..MaxBundles : s # call.slot

(***************************************************************************)
(* C18: last_trainer_result of a bundle is the value its most recent       *)
(* successful grade_answer, grade_exam_retry or assistant_answer call      *)
(* returned, None if there was none since the build; a call that fails     *)
(* leaves it unchanged.                                                    *)
(***************************************************************************)
C18_LastResultIsLatestReturned ==
    [][/\ \A s \in 1..MaxBundles :
              objects'[bundles'[s]].last_trainer_result = returned'[s]
       /\ call'.outcome = "raised" =>
              \A s \in 1..MaxBundles :
                  objects'[bundles'[s]].last_trainer_result
                      = InstancesOf(s).last_trainer_result]_allvars

\* a call that passed the input checks failed later on
C18_Witness ==
    /\ PassedInputChecks
    /\ call.outcome = "raised"
    /\ InstancesOf(call.slot).last_trainer_result = returned[call.slot]

(***************************************************************************)
(* C19: grade_answer with a mode other than coach and examiner, any of the *)
(* three operations on a bundle without a profile, and grade_exam_retry on *)
(* a profile without solutions raise ValueError before a client is         *)
(* created, a retrieval runs or the model service is called.               *)
(***************************************************************************)
C19_ChecksBeforeEffects ==
    (call.op \in GradingOps /\ ~PassedInputChecks) =>
        /\ call.outcome = "raised"
        /\ call.error = "ValueError"
        /\ call.effects = <<>>

\* grade_answer was called with another mode on a bundle that holds a profile
C19_Witness ==
    /\ call.op = "grade_answer"
    /\ call.mode = "tutor"
    /\ InstancesOf(call.slot).active_course_profile.st = "val"
    /\ call.error = "ValueError"

\* the build was given an API key and the model service answered each of its four
\* requests with a JSON object
BuildCanSucceed(a) ==
    /\ Truthy(a.api_key) \/ Truthy(a.env_key)
    /\ \A i \in 1..Len(a.responses) :
           /\ a.responses[i].kind = "content"
           /\ a.responses[i].content.st = "json"

\* the text of a document, a missing or None text read as the empty text
TextOf(d) == Val(OrElse(d.text, <<>>))

\* the instances hold a profile that registers the documents of a: K1..Kn, then
\* S1..Sm, the raw texts under the same ids, and no trainer result
RegistersDocs(inst, a) ==
    LET n == Len(a.knowledge_docs)
        m == Len(a.style_docs)
        reg == inst.active_course_profile.v.doc_registry.v
        raw == inst.active_course_profile.v.raw_docs.v
    IN  /\ inst.active_course_profile.st = "val"
        /\ Len(reg) = n + m
        /\ \A i \in 1..n : reg[i].doc_id = DocId(i) /\ reg[i].type = "knowledge"
        /\ \A j \in 1..m : reg[n + j].doc_id = StyleDocId(j) /\ reg[n + j].type = "style"
        /\ \A i, j \in 1..(n + m) : reg[i].doc_id = reg[j].doc_id => i = j
        /\ raw.knowledge.v
               = [i \in 1..n |-> [doc_id |-> DocId(i), text |-> TextOf(a.knowledge_docs[i])]]
        /\ raw.style.v
               = [j \in 1..m |-> [doc_id |-> StyleDocId(j), text |-> TextOf(a.style_docs[j])]]
        /\ inst.last_trainer_result = PyNone

(***************************************************************************)
(* C21: build_course_bundle, given an API key and four JSON answers of the *)
(* model service, returns a bundle for its n knowledge and m style         *)
(* documents whose doc_registry has the n+m entries K1..Kn (knowledge)     *)
(* then S1..Sm (style) with distinct ids, whose raw_docs map exactly these *)
(* ids to the documents' texts, and whose last_trainer_result is None.     *)
(***************************************************************************)
C21_BuildReturnsRegisteredBundle ==
    [][\A s \in 1..MaxBundles, a \in BuildArgs :
           (Build(s, a) /\ BuildCanSucceed(a)) =>
               /\ call'.outcome = "returned"
               /\ RegistersDocs(objects'[bundles'[s]], a)]_allvars

(***************************************************************************)
(* The chunker of the design: a cursor scans the normalized text; each     *)
(* iteration takes the next chunk_size characters as a chunk and moves the *)
(* cursor on by chunk_size - overlap, until a chunk reaches the end of the *)
(* text.  A chunk size that is not positive, or an overlap that is not     *)
(* below it, is rejected.                                                  *)
(***************************************************************************)
MaxTextLen == 6
MaxChunkSize == 3

\* malformed parameters
MalformedChunking(size, ov) == size <= 0 \/ ov < 0 \/ ov >= size

\* ScanStep moving the cursor back by the overlap also after the last chunk
ScanStepUnguarded(text, size, ov, cur, chs) ==
    LET end == IF cur + size < Len(text) THEN cur + size ELSE Len(text)
    IN  IF cur >= Len(text) THEN [cursor |-> cur, chunks |-> chs, done |-> TRUE]
        ELSE [cursor |-> end - ov,
              chunks |-> Append(chs, [start |-> cur, text |-> SubSeq(text, cur + 1, end)]),
              done |-> FALSE]

\* ScanStep moving the cursor on by the chunk size
ScanStepNoOverlap(text, size, ov, cur, chs) ==
    LET end == IF cur + size < Len(text) THEN cur + size ELSE Len(text)
    IN  IF cur >= Len(text) THEN [cursor |-> cur, chunks |-> chs, done |-> TRUE]
        ELSE [cursor |-> end,
              chunks |-> Append(chs, [start |-> cur, text |-> SubSeq(text, cur + 1, end)]),
              done |-> end = Len(text)]

\* one iteration of the scan: the chunk at the cursor, then the cursor moved on;
\* the scan is over once a chunk reaches the end of the text
ScanStep(text, size, ov, cur, chs) ==
    LET end == IF cur + size < Len(text) THEN cur + size ELSE Len(text)
    IN  IF cur >= Len(text) THEN [cursor |-> cur, chunks |-> chs, done |-> TRUE]
        ELSE [cursor |-> IF end = Len(text) THEN end ELSE end - ov,
              chunks |-> Append(chs, [start |-> cur, text |-> SubSeq(text, cur + 1, end)]),
              done |-> end = Len(text)]

\* a text, a chunk size and an overlap are at hand
InitChunk ==
    /\ RetrieveIdle
    /\ ValidateIdle
    /\ GradeIdle
    /\ AppIdle
    /\ c_text \in SeqsUpTo({"a", "b"}, MaxTextLen)
    /\ chunk_size \in 0..MaxChunkSize
    /\ chunk_overlap \in 0..MaxChunkSize
    /\ cursor = 0
    /\ chunks = <<>>
    /\ c_pc = "start"

\* the chunker is called: malformed parameters are rejected at once
StartChunking ==
    /\ c_pc = "start"
    /\ c_pc' = IF MalformedChunking(chunk_size, chunk_overlap) THEN "rejected" ELSE "scan"
    /\ UNCHANGED <<vars, vvars, gvars, avars, c_text, chunk_size, chunk_overlap, cursor,
                   chunks>>

\* one iteration of the scan
ScanNext ==
    /\ c_pc = "scan"
    /\ \E r \in {ScanStep(c_text, chunk_size, chunk_overlap, cursor, chunks)} :
           /\ cursor' = r.cursor
           /\ chunks' = r.chunks
           /\ c_pc' = IF r.done THEN "done" ELSE "scan"
    /\ UNCHANGED <<vars, vvars, gvars, avars, c_text, chunk_size, chunk_overlap>>

NextChunk == StartChunking \/ ScanNext

SpecChunk == InitChunk /\ [][NextChunk]_allvars

(***************************************************************************)
(* C16: for a chunk size S > 0 and an overlap O with 0 <= O < S the scan   *)
(* ends on every text: each iteration moves the cursor strictly forwards   *)
(* and never past the end of the text, also when the overlap is at least   *)
(* the remaining length; the empty text yields no chunk; there are never   *)
(* more than ceil(len(T) / (S - O)) chunks.                                *)
(***************************************************************************)
CeilDiv(a, b) == (a + b - 1) \div b

C16_CursorAdvances ==
    [][/\ (c_pc = "scan" /\ c_text # <<>>) => (cursor' > cursor /\ cursor' <= Len(c_text))
       /\ (c_pc = "scan" /\ c_text = <<>>) => (c_pc' = "done" /\ chunks' = <<>>)
       /\ c_pc' \in {"scan", "done"} =>
              Len(chunks') <= CeilDiv(Len(c_text), chunk_size - chunk_overlap)]_allvars

\* a scan of two or more chunks ended, and before its last chunk no more text
\* than the overlap is long remained
C16_Witness ==
    /\ c_pc = "done"
    /\ Len(chunks) >= 2
    /\ chunk_overlap >= 1
    /\ Len(chunks[Len(chunks)].text) - chunk_overlap <= chunk_overlap

(***************************************************************************)
(* C17: for S > 0 and 0 <= O < S the chunks cover the text with a fixed    *)
(* overlap: the i-th chunk (from 0) starts at offset i * (S - O), every    *)
(* chunk but the last is S characters long and shares its last O           *)
(* characters with the start of the next, the last may be shorter, and the *)
(* chunks joined with the first O characters of each later chunk removed   *)
(* are the text.                                                           *)
(***************************************************************************)
RECURSIVE JoinWithoutOverlaps(_, _)
JoinWithoutOverlaps(chs, i) ==
    IF i > Len(chs) THEN <<>>
    ELSE (IF i = 1 THEN chs[i].text
          ELSE SubSeq(chs[i].text, chunk_overlap + 1, Len(chs[i].text)))
         \o JoinWithoutOverlaps(chs, i + 1)

C17_ChunksCoverText ==
    c_pc = "done" =>
        /\ \A i \in 1..Len(chunks) :
               /\ chunks[i].start = (i - 1) * (chunk_size - chunk_overlap)
               /\ chunks[i].text =
                      SubSeq(c_text, chunks[i].start + 1,
                             Min(Len(c_text), chunks[i].start + chunk_size))
               /\ i < Len(chunks) =>
                      /\ Len(chunks[i].text) = chunk_size
                      /\ Len(chunks[i + 1].text) > chunk_overlap
                      /\ chunks[i].start + chunk_size - chunks[i + 1].start = chunk_overlap
                      /\ SubSeq(chunks[i].text, chunk_size - chunk_overlap + 1, chunk_size)
                             = SubSeq(chunks[i + 1].text, 1, chunk_overlap)
        /\ JoinWithoutOverlaps(chunks, 1) = c_text

\* three chunks with an overlap, the last one shorter than the chunk size
C17_Witness ==
    /\ c_pc = "done"
    /\ Len(chunks) >= 3
    /\ chunk_overlap >= 1
    /\ Len(chunks[Len(chunks)].text) < chunk_size

(***************************************************************************)
(* The web app.  Streamlit runs the script from the top on every           *)
(* interaction; a pressed button is True in that one run.  The sidebar     *)
(* (88-162) holds the API key input, the upload and delete buttons and the *)
(* Build button; the script then loads the stored bundle and stops when    *)
(* there is none (164-168), else it shows the tabs with the question and   *)
(* grading buttons (181-345).  An exception ends the run.                  *)
(***************************************************************************)
\* list_files(folder): the names of the files of the folder, sorted
ListFiles(dir) == SelectSeq([n \in 1..MaxFiles |-> n], LAMBDA n : dir[n].st = "val")

\* load_docs(folder): name and text of each file, in the order of list_files
LoadDocs(dir) ==
    [i \in 1..Len(ListFiles(dir)) |->
        Doc(Val(<<"file", ListFiles(dir)[i]>>), dir[ListFiles(dir)[i]])]

\* save_uploaded_files(uploaded, folder): each uploaded file is written under its
\* name, over a file of that name
SaveUploadedFiles(uploaded, dir) ==
    [n \in 1..MaxFiles |-> IF uploaded[n].st = "val" THEN uploaded[n] ELSE dir[n]]

\* delete_file(folder, filename)
DeleteFile(dir, filename) == [n \in 1..MaxFiles |-> IF n = filename THEN Absent ELSE dir[n]]

\* the script after the sidebar, showing the tabs whatever load_bundle() returned
MainPageNoStop(file) == "tabs"

\* the script after the sidebar: bundle = load_bundle(); if not bundle: st.stop()
MainPage(file) == IF file.st # "val" THEN "stopped" ELSE "tabs"

\* memory during a run that shows the tabs: the template of engine_backend and the
\* bundle load_bundle() parsed from the file
Loaded(file) ==
    [a \in {TemplateRef, 1} |-> IF a = TemplateRef THEN TemplateInstances ELSE file.v]

\* how a run ended: "done", "message" (st.error, st.warning or st.info was shown
\* instead of the work) or "raised", and the engine function it called
Ran(action, how, error, called) ==
    [action |-> action, outcome |-> how, error |-> error, called |-> called]

(***************************************************************************)
(* The data directory at start.                                            *)
(***************************************************************************)
\* the bundles Build composes and saves for these two folders
SavedBundles(kdir, sdir) ==
    {ComposeBundle(TemplateObjects,
                   ComposeProfile(RegistryOf(AddDocs(LoadDocs(kdir), "knowledge"))
                                      \o RegistryOf(AddDocs(LoadDocs(sdir), "style")),
                                  <<ItemAbc>>, sols,
                                  RawOf(AddDocs(LoadDocs(kdir), "knowledge")),
                                  RawOf(AddDocs(LoadDocs(sdir), "style")))).objects[1] :
        sols \in {<<>>, <<[solution_id |-> "sol1"]>>}}

\* the app starts on a fresh data directory, or on the one an earlier session left
\* with a knowledge file, a style file and the bundle saved for them
InitApp ==
    /\ RetrieveIdle
    /\ ValidateIdle
    /\ GradeIdle
    /\ ChunkIdle
    /\ st_api_key = <<>>
    /\ session_state = [last_grade |-> PyNone, last_retry |-> PyNone]
    /\ rerun = [action |-> "none"]
    /\ \/ /\ know_dir = NoFiles
          /\ style_dir = NoFiles
          /\ bundle_path = PyNone
       \/ /\ know_dir = [NoFiles EXCEPT ![1] = Val(TextTwo)]
          /\ style_dir = [NoFiles EXCEPT ![1] = Val(LineAbc)]
          /\ \E b \in SavedBundles(know_dir, style_dir) : bundle_path = Val(b)

(***************************************************************************)
(* The runs of the script, one per interaction.                            *)
(***************************************************************************)
\* the API key input was edited (90-95)
SetApiKey(key) ==
    /\ st_api_key' = key
    /\ rerun' = Ran("api_key", "done", "", "")
    /\ UNCHANGED <<know_dir, style_dir, bundle_path, session_state>>
    /\ UNCHANGED <<vars, vvars, gvars, cvars>>

\* a save button of the sidebar was pressed (103-108, 112-117)
SaveFiles(folder, uploaded) ==
    /\ rerun' = Ran(<<"save", folder>>,
                    IF uploaded = NoFiles THEN "message" ELSE "done", "", "")
    /\ know_dir' = IF folder = "knowledge" THEN SaveUploadedFiles(uploaded, know_dir)
                   ELSE know_dir
    /\ style_dir' = IF folder = "style" THEN SaveUploadedFiles(uploaded, style_dir)
                    ELSE style_dir
    /\ UNCHANGED <<bundle_path, st_api_key, session_state>>
    /\ UNCHANGED <<vars, vvars, gvars, cvars>>

\* a delete button of the sidebar was pressed, its selectbox on a listed file or on
\* the empty choice, here 0 (121-138)
Delete(folder, filename) ==
    /\ IF filename = 0 THEN TRUE
       ELSE (IF folder = "knowledge" THEN know_dir ELSE style_dir)[filename].st = "val"
    /\ rerun' = Ran(<<"delete", folder>>, IF filename = 0 THEN "message" ELSE "done", "", "")
    /\ know_dir' = IF folder = "knowledge" THEN DeleteFile(know_dir, filename) ELSE know_dir
    /\ style_dir' = IF folder = "style" THEN DeleteFile(style_dir, filename) ELSE style_dir
    /\ UNCHANGED <<bundle_path, st_api_key, session_state>>
    /\ UNCHANGED <<vars, vvars, gvars, cvars>>

\* "Build / Update Course Bundle" was pressed (142-162): the checks, then
\* build_course_bundle, then save_bundle
BuildClick(responses, env_key) ==
    /\ IF st_api_key = <<>> \/ LoadDocs(know_dir) = <<>> \/ LoadDocs(style_dir) = <<>>
       THEN /\ rerun' = Ran("build", "message", "", "")
            /\ UNCHANGED bundle_path
       ELSE \E r \in {BuildCourseBundle(TemplateObjects,
                          [knowledge_docs |-> LoadDocs(know_dir),
                           style_docs |-> LoadDocs(style_dir),
                           api_key |-> Val(st_api_key), env_key |-> env_key,
                           responses |-> responses])} :
                /\ rerun' = Ran("build", IF r.outcome = "returned" THEN "done" ELSE "raised",
                                r.error, "build_course_bundle")
                /\ bundle_path' = IF r.outcome = "returned" THEN Val(r.objects[r.result.v])
                                  ELSE bundle_path
    /\ UNCHANGED <<know_dir, style_dir, st_api_key, session_state>>
    /\ UNCHANGED <<vars, vvars, gvars, cvars>>

\* a button of the tabs was pressed: action names it, blank tells that its text
\* input is blank, r is how the engine function ends on the loaded bundle
\* (186-193, 228-243, 301-309); line 170 subscripts the loaded bundle
TabClick(action, called, blank, r) ==
    /\ MainPage(bundle_path) = "tabs"
    /\ rerun' = IF bundle_path.st # "val" THEN Ran(action, "raised", "TypeError", "")
                ELSE IF st_api_key = <<>> \/ blank THEN Ran(action, "message", "", "")
                ELSE Ran(action, IF r.outcome = "returned" THEN "done" ELSE "raised", r.error,
                         called)
    /\ session_state' =
           IF bundle_path.st = "val" /\ st_api_key # <<>> /\ ~blank /\ r.outcome = "returned"
           THEN IF action = "grade" THEN [session_state EXCEPT !.last_grade = r.result]
                ELSE IF action = "retry" THEN [session_state EXCEPT !.last_retry = r.result]
                ELSE session_state
           ELSE session_state
    /\ UNCHANGED <<know_dir, style_dir, bundle_path, st_api_key>>
    /\ UNCHANGED <<vars, vvars, gvars, cvars>>

\* the button of the assistant tab (186-193)
AskClick(q, response, env_key) ==
    TabClick("ask", "assistant_answer", NormalizeWsStr(q) = <<>>,
             AssistantAnswer(Loaded(bundle_path), 1,
                             [question |-> q, api_key |-> Val(st_api_key),
                              env_key |-> env_key, response |-> response]))

\* the button of the practice tab (228-243)
GradeClick(question_text, student_answer, mode, response, env_key) ==
    TabClick("grade", "grade_answer", NormalizeWsStr(student_answer) = <<>>,
             GradeAnswer(Loaded(bundle_path), 1,
                         [student_answer |-> Val(student_answer),
                          question_text |-> Val(question_text), mode |-> mode,
                          api_key |-> Val(st_api_key), env_key |-> env_key,
                          response |-> response]))

\* the button of the exam retry tab (301-309)
RetryClick(q_text, ans, response, env_key) ==
    TabClick("retry", "grade_exam_retry", NormalizeWsStr(ans) = <<>>,
             GradeExamRetry(Loaded(bundle_path), 1,
                            [student_answer |-> Val(ans), question_text |-> Val(q_text),
                             api_key |-> Val(st_api_key), env_key |-> env_key,
                             response |-> response]))

\* ingest_course_onefile.py was run: its line 7 imports save_json, a name
\* engine_backend does not define
RunIngest ==
    /\ rerun' = Ran("ingest", "raised", "ImportError", "")
    /\ UNCHANGED <<know_dir, style_dir, bundle_path, st_api_key, session_state>>
    /\ UNCHANGED <<vars, vvars, gvars, cvars>>

\* a file uploader holds, per name, no file or a text when its button is pressed; the
\* model service would fail or answer a request of the page with a JSON object
NextApp ==
    \/ \E key \in {<<>>, <<"k">>} : SetApiKey(key)
    \/ \E folder \in {"knowledge", "style"},
          uploaded \in [1..MaxFiles -> {Absent, Val(LineAbc)}] : SaveFiles(folder, uploaded)
    \/ \E folder \in {"knowledge", "style"}, filename \in 0..MaxFiles :
           Delete(folder, filename)
    \/ \E a \in BuildArgs : BuildClick(a.responses, a.env_key)
    \/ \E response \in {r \in Responses : r.kind = "error" \/ r.content.st = "json"},
          env_key \in ApiKeys, text \in {wAbc, SP} :
           \/ AskClick(text, response, env_key)
           \/ \E mode \in {"coach", "examiner"} :
                  GradeClick(wXyz, text, mode, response, env_key)
           \/ RetryClick(wXyz, text, response, env_key)
    \/ RunIngest

SpecApp == InitApp /\ [][NextApp]_allvars

(***************************************************************************)
(* Vocabulary of the property of the web app.                              *)
(***************************************************************************)
\* the runs that handle a question or grading button
GradingActions == {"ask", "grade", "retry"}

\* the folder holds at least one file
HasFile(dir) == \E n \in 1..MaxFiles : dir[n].st = "val"

(***************************************************************************)
(* C22: in the web app, whatever uploads, deletes, builds, questions and   *)
(* gradings are made, the stored bundle file changes only in a Build run   *)
(* taken with an API key entered and with at least one knowledge file and  *)
(* one style file on disk; every other run leaves it as it was, so the     *)
(* last_trainer_result of a stored bundle is None; and no question or      *)
(* grading button is handled while no bundle is stored.                    *)
(***************************************************************************)
C22_BundleWrittenOnlyByBuild ==
    [][/\ bundle_path' # bundle_path =>
              /\ rerun'.action = "build"
              /\ st_api_key # <<>>
              /\ HasFile(know_dir)
              /\ HasFile(style_dir)
       /\ bundle_path'.st = "val" => bundle_path'.v.last_trainer_result = PyNone
       /\ rerun'.action \in GradingActions => bundle_path.st = "val"]_allvars

\* a grading request with a key and an answer reached grade_answer on the stored
\* bundle, while both folders hold a file
C22_Witness ==
    /\ rerun.action = "grade"
    /\ rerun.called = "grade_answer"
    /\ bundle_path.st = "val"
    /\ HasFile(know_dir)
    /\ HasFile(style_dir)

====
